---------------------------- MODULE Spec2Model ----------------------------
(* State-machine model of src/app.py: the Flask handlers over the MongoDB   *)
(* collections user_data, clg_data and Event_data.  A handler that makes    *)
(* one store call is one action.  google_login and rate_college make        *)
(* several store calls and are one action per store call, so that requests  *)
(* served by different workers interleave between their store calls.        *)
EXTENDS Naturals, Integers, Sequences, FiniteSets, TLC

VARIABLES
    users,      \* user_collection: sequence of documents in natural order
    colleges,   \* clg_collection
    events,     \* event_collection
    nextId,     \* the next ObjectId the store assigns
    clock,      \* the last value datetime.utcnow() returned
    served,     \* per worker: number of requests it accepted so far
    pc,         \* per worker: position inside the handler it runs ("idle": none)
    req,        \* per worker: the request it accepted last
    loc,        \* per worker: the handler's local variables
    resp        \* per worker: the response it returned last

vars == <<users, colleges, events, nextId, clock, served, pc, req, loc, resp>>

----------------------------------------------------------------------------
(* Bounds of the model *)

MaxRequests == 3    \* requests accepted in one behaviour
MaxTime == 1        \* datetime.utcnow() ranges over 0..MaxTime
MaxMissing == 1     \* POST /colleges bodies lack at most this many required
                    \* fields (or all of them)

Procs == {1, 2}     \* workers serving requests concurrently

----------------------------------------------------------------------------
(* Responses and the store's primitives *)

(* jsonify({...}), status: the code, the message or error text, and the     *)
(* field names an error lists                                               *)
Response(code, text) == [code |-> code, text |-> text, missing |-> <<>>]

NoResp == Response(0, "")
NoReq == [op |-> "none"]
NoLoc == [user |-> 0, college |-> 0, seen |-> <<>>, t1 |-> 0, t2 |-> 0]

(* find_one({field: value}), and the document update_one and delete_one    *)
(* act on: the index of the first document matching, 0 for None             *)
FindOne(coll, field, value) ==
    IF \E i \in 1..Len(coll) : coll[i][field] = value
    THEN CHOOSE i \in 1..Len(coll) :
            coll[i][field] = value /\ \A j \in 1..(i - 1) : coll[j][field] # value
    ELSE 0

(* delete_one: the collection without its document at index i *)
RemoveAt(coll, i) ==
    [j \in 1..(Len(coll) - 1) |-> IF j < i THEN coll[j] ELSE coll[j + 1]]

RECURSIVE Sum(_, _)
Sum(f, S) == IF S = {} THEN 0
             ELSE LET x == CHOOSE y \in S : TRUE IN f[x] + Sum(f, S \ {x})

(* a worker takes a request off the socket *)
Accept(p, r) ==
    /\ pc[p] = "idle"
    /\ Sum(served, Procs) < MaxRequests
    /\ served' = [served EXCEPT ![p] = @ + 1]
    /\ req' = [req EXCEPT ![p] = r]

(* this step is worker p accepting a request *)
Accepts(p) == served'[p] # served[p]

(* return jsonify(...), code *)
Reply(p, r) ==
    /\ resp' = [resp EXCEPT ![p] = r]
    /\ pc' = [pc EXCEPT ![p] = "idle"]

(* the handler goes on to its next store call *)
Goto(p, label) ==
    /\ pc' = [pc EXCEPT ![p] = label]
    /\ resp' = [resp EXCEPT ![p] = NoResp]

----------------------------------------------------------------------------
(* Identity Gateway: google_login *)

(* request.json's "credential": absent or empty (""), or a token string *)
Tokens == {"", "bad", "tokA", "tokB"}

(* requests.get(tokeninfo).status_code *)
GoogleStatus(token) == IF token \in {"tokA", "tokB"} THEN 200 ELSE 400

(* google_response.json(): the verified subject *)
GoogleInfo(token) ==
    IF token = "tokA"
    THEN [sub |-> "gA", name |-> "A", email |-> "a@x", picture |-> "pA"]
    ELSE [sub |-> "gB", name |-> "B", email |-> "b@x", picture |-> "pB"]

Emails == {"a@x", "b@x"}

UserData(id, info, t1, t2) ==
    [id |-> id, google_id |-> info.sub, name |-> info.name, email |-> info.email,
     profile_picture |-> info.picture, role |-> "student",
     last_login |-> t1, created_at |-> t2]

(* google_login without the status_code check of line 47 *)
GoogleLoginFind_NoStatusCheck(p, token) ==
    /\ Accept(p, [op |-> "google_login", token |-> token])
    /\ IF token = ""
       THEN /\ Reply(p, Response(400, "Missing Google token"))
            /\ UNCHANGED <<loc, clock>>
       ELSE \E t1 \in clock..MaxTime : \E t2 \in t1..MaxTime :
            LET i == FindOne(users, "email", GoogleInfo(token).email)
            IN /\ clock' = t2
               /\ loc' = [loc EXCEPT ![p] =
                        [NoLoc EXCEPT !.t1 = t1, !.t2 = t2,
                                      !.user = IF i = 0 THEN 0 ELSE users[i].id]]
               /\ Goto(p, "login_write")
    /\ UNCHANGED <<users, colleges, events, nextId>>

(* lines 38-63: token check, token exchange, user_data, find_one by email *)
GoogleLoginFind(p, token) ==
    /\ Accept(p, [op |-> "google_login", token |-> token])
    /\ IF token = ""
       THEN /\ Reply(p, Response(400, "Missing Google token"))
            /\ UNCHANGED <<loc, clock>>
       ELSE IF GoogleStatus(token) # 200
       THEN /\ Reply(p, Response(401, "Invalid Google Token"))
            /\ UNCHANGED <<loc, clock>>
       ELSE \E t1 \in clock..MaxTime : \E t2 \in t1..MaxTime :
            LET i == FindOne(users, "email", GoogleInfo(token).email)
            IN /\ clock' = t2
               /\ loc' = [loc EXCEPT ![p] =
                        [NoLoc EXCEPT !.t1 = t1, !.t2 = t2,
                                      !.user = IF i = 0 THEN 0 ELSE users[i].id]]
               /\ Goto(p, "login_write")
    /\ UNCHANGED <<users, colleges, events, nextId>>

(* lines 65-75: update_one($set last_login) or insert_one(user_data) *)
GoogleLoginWrite(p) ==
    /\ pc[p] = "login_write"
    /\ LET info == GoogleInfo(req[p].token)
           i == FindOne(users, "email", info.email)
       IN IF loc[p].user # 0
          THEN /\ users' = IF i = 0 THEN users
                           ELSE [users EXCEPT ![i].last_login = loc[p].t1]
               /\ Reply(p, Response(200, "User logged in"))
               /\ UNCHANGED nextId
          ELSE /\ users' = Append(users, UserData(nextId, info, loc[p].t1, loc[p].t2))
               /\ nextId' = nextId + 1
               /\ Reply(p, Response(201, "New user registered"))
    /\ UNCHANGED <<colleges, events, clock, served, req, loc>>

----------------------------------------------------------------------------
(* Event Registry: add_event, update_event, delete_event *)

EventRequired == {"college_name", "event_name", "description", "date", "location"}

(* date strings a client sends *)
DateStrings == {"2024-05-01", "2024-13-40", "2024-05-01T10:00:00Z"}

ValueError == <<>>

DaysIn(y, m) ==
    IF m \in {4, 6, 9, 11} THEN 30
    ELSE IF m = 2 THEN (IF y % 4 = 0 /\ (y % 100 # 0 \/ y % 400 = 0) THEN 29 ELSE 28)
    ELSE 31

(* the fields a date string splits into: <<form, Y, m, d, H, M, S>> *)
DateFields(s) ==
    CASE s = "2024-05-01" -> <<"%Y-%m-%d", 2024, 5, 1, 0, 0, 0>>
      [] s = "2024-13-40" -> <<"%Y-%m-%d", 2024, 13, 40, 0, 0, 0>>
      [] s = "2024-05-01T10:00:00Z" -> <<"%Y-%m-%dT%H:%M:%SZ", 2024, 5, 1, 10, 0, 0>>

(* datetime.strptime(s, fmt): a datetime <<Y, m, d, H, M, S>>, or ValueError *)
Strptime(s, fmt) ==
    LET f == DateFields(s)
    IN IF /\ f[1] = fmt
          /\ f[3] \in 1..12
          /\ f[4] \in 1..DaysIn(f[2], f[3])
          /\ f[5] \in 0..23 /\ f[6] \in 0..59 /\ f[7] \in 0..59
       THEN <<f[2], f[3], f[4], f[5], f[6], f[7]>>
       ELSE ValueError

(* a stored _id: n > 0 is the ObjectId n; n < 0 is a JSON value that the    *)
(* client put in the body's "_id".  ObjectId(event_id) of a URL is never a  *)
(* JSON value.  0: the body carries no "_id"                                *)
ClientIds == {0, -1}

EventIds(evs) == {evs[i].id : i \in 1..Len(evs)}

(* request bodies of POST /events *)
AddEventBodies ==
    [fields : {EventRequired, EventRequired \ {"location"}},
     date : DateStrings, id : ClientIds]

(* lines 173-198 *)
AddEvent(p, data) ==
    /\ Accept(p, [op |-> "add_event", data |-> data])
    /\ IF ~(EventRequired \subseteq data.fields)
       THEN /\ Reply(p, Response(400, "Missing required fields"))
            /\ UNCHANGED <<events, nextId, clock>>
       ELSE IF Strptime(data.date, "%Y-%m-%d") = ValueError
       THEN /\ Reply(p, Response(400, "Invalid date format"))
            /\ UNCHANGED <<events, nextId, clock>>
       ELSE \E t1 \in clock..MaxTime : \E t2 \in t1..MaxTime :
            /\ clock' = t2
            /\ IF data.id # 0 /\ data.id \in EventIds(events)
               THEN /\ Reply(p, Response(500, "DuplicateKeyError"))
                    /\ UNCHANGED <<events, nextId>>
               ELSE /\ events' = Append(events,
                            [id |-> IF data.id = 0 THEN nextId ELSE data.id,
                             description |-> "d1",
                             date |-> Strptime(data.date, "%Y-%m-%d"),
                             created_at |-> t1, updated_at |-> t2])
                    /\ nextId' = IF data.id = 0 THEN nextId + 1 ELSE nextId
                    /\ Reply(p, Response(201, "Event added successfully"))
    /\ UNCHANGED <<users, colleges, loc>>

(* request bodies of PUT /events/<id>: the supplied fields *)
UpdateEventBodies ==
    [fields : {{}, {"date"}, {"description"}, {"date", "description"}},
     date : DateStrings]

(* $set of the supplied fields and updated_at *)
SetEvent(ev, data, t) ==
    [ev EXCEPT !.date = IF "date" \in data.fields
                        THEN Strptime(data.date, "%Y-%m-%dT%H:%M:%SZ") ELSE @,
               !.description = IF "description" \in data.fields THEN "d2" ELSE @,
               !.updated_at = t]

(* lines 222-238; event_id 0 is a string that ObjectId() rejects *)
UpdateEvent(p, event_id, data) ==
    /\ Accept(p, [op |-> "update_event", id |-> event_id, data |-> data])
    /\ IF "date" \in data.fields
          /\ Strptime(data.date, "%Y-%m-%dT%H:%M:%SZ") = ValueError
       THEN /\ Reply(p, Response(500, "ValueError"))
            /\ UNCHANGED <<events, clock>>
       ELSE \E t \in clock..MaxTime :
            /\ clock' = t
            /\ IF event_id = 0
               THEN /\ Reply(p, Response(500, "InvalidId"))
                    /\ UNCHANGED events
               ELSE LET i == FindOne(events, "id", event_id)
                    IN IF i # 0 /\ SetEvent(events[i], data, t) # events[i]
                       THEN /\ events' = [events EXCEPT ![i] = SetEvent(@, data, t)]
                            /\ Reply(p, Response(200, "Event updated successfully"))
                       ELSE /\ Reply(p, Response(404, "No changes made or event not found"))
                            /\ UNCHANGED events
    /\ UNCHANGED <<users, colleges, nextId, loc>>

(* delete_event returning 200 without the delete_one *)
DeleteEvent_KeepsDocument(p, event_id) ==
    /\ Accept(p, [op |-> "delete_event", id |-> event_id])
    /\ IF event_id = 0
       THEN Reply(p, Response(500, "InvalidId"))
       ELSE IF FindOne(events, "id", event_id) # 0
       THEN Reply(p, Response(200, "Event deleted successfully"))
       ELSE Reply(p, Response(404, "Event not found"))
    /\ UNCHANGED <<users, colleges, events, nextId, clock, loc>>

(* lines 244-252 *)
DeleteEvent(p, event_id) ==
    /\ Accept(p, [op |-> "delete_event", id |-> event_id])
    /\ IF event_id = 0
       THEN /\ Reply(p, Response(500, "InvalidId"))
            /\ UNCHANGED events
       ELSE LET i == FindOne(events, "id", event_id)
            IN IF i # 0
               THEN /\ events' = RemoveAt(events, i)
                    /\ Reply(p, Response(200, "Event deleted successfully"))
               ELSE /\ Reply(p, Response(404, "Event not found"))
                    /\ UNCHANGED events
    /\ UNCHANGED <<users, colleges, nextId, clock, loc>>

----------------------------------------------------------------------------
(* College Registry: add_college, delete_college, update_college *)

(* required_fields, in the order of line 111 *)
RequiredFields ==
    <<"name", "location", "website", "contact", "facilities",
      "departments", "courses", "city", "state", "branches">>

Required == {RequiredFields[i] : i \in 1..Len(RequiredFields)}

Names == {"n1", "n2"}

LocationKeys == {"latitude", "longitude", "address"}
ContactKeys == {"email", "phone"}

(* the value under "location" / "contact": a JSON object with some keys, or *)
(* a JSON value of another type                                             *)
Shape(isdict, keys) == [isdict |-> isdict, keys |-> keys]

(* [field for field in required_fields if field not in data] *)
MissingFields_FirstOnly(data) ==
    LET m == SelectSeq(RequiredFields, LAMBDA f : f \notin data.fields)
    IN IF m = <<>> THEN m ELSE <<Head(m)>>

MissingFields(data) == SelectSeq(RequiredFields, LAMBDA f : f \notin data.fields)

(* isinstance(v, dict) and all(key in v for key in keys) *)
HasKeys(v, keys) == v.isdict /\ keys \subseteq v.keys

(* lines 107-140; a body is the set of its top-level keys, the name, and    *)
(* the shapes of its location and contact                                   *)
AddCollege(p, data) ==
    /\ Accept(p, [op |-> "add_college", data |-> data])
    /\ IF data.fields = {}
       THEN /\ Reply(p, Response(400, "Request must contain JSON data"))
            /\ UNCHANGED <<colleges, nextId, clock>>
       ELSE IF MissingFields(data) # <<>>
       THEN /\ Reply(p, [Response(400, "Missing required fields")
                            EXCEPT !.missing = MissingFields(data)])
            /\ UNCHANGED <<colleges, nextId, clock>>
       ELSE IF ~HasKeys(data.location, LocationKeys)
       THEN /\ Reply(p, Response(400, "Invalid location data"))
            /\ UNCHANGED <<colleges, nextId, clock>>
       ELSE IF ~HasKeys(data.contact, ContactKeys)
       THEN /\ Reply(p, Response(400, "Invalid contact data"))
            /\ UNCHANGED <<colleges, nextId, clock>>
       ELSE \E t1 \in clock..MaxTime : \E t2 \in t1..MaxTime :
            /\ clock' = t2
            /\ colleges' = Append(colleges,
                    [id |-> nextId, name |-> data.name, website |-> "w1",
                     has_reviews |-> FALSE, reviews |-> <<>>,
                     created_at |-> t1, updated_at |-> t2])
            /\ nextId' = nextId + 1
            /\ Reply(p, Response(201, "College added successfully"))
    /\ UNCHANGED <<users, events, loc>>

(* lines 145-152 *)
DeleteCollege(p, name) ==
    /\ Accept(p, [op |-> "delete_college", name |-> name])
    /\ LET i == FindOne(colleges, "name", name)
       IN IF i # 0
          THEN /\ colleges' = RemoveAt(colleges, i)
               /\ Reply(p, Response(200, "College deleted successfully"))
          ELSE /\ Reply(p, Response(404, "College not found"))
               /\ UNCHANGED colleges
    /\ UNCHANGED <<users, events, nextId, clock, loc>>

(* request bodies of PUT /colleges/<name>: the supplied fields; a supplied  *)
(* "reviews" is the empty array                                             *)
UpdateCollegeBodies ==
    [fields : {{"website"}, {"reviews"}, {"website", "reviews"}}, website : {"w2"}]

(* {"$set": updated_data} *)
SetCollege(c, data) ==
    [c EXCEPT !.website = IF "website" \in data.fields THEN data.website ELSE @,
              !.has_reviews = IF "reviews" \in data.fields THEN TRUE ELSE @,
              !.reviews = IF "reviews" \in data.fields THEN <<>> ELSE @]

(* update_college testing matched_count instead of modified_count *)
UpdateCollege_MatchedCount(p, name, data) ==
    /\ Accept(p, [op |-> "update_college", name |-> name, data |-> data])
    /\ LET i == FindOne(colleges, "name", name)
       IN IF i # 0
          THEN /\ colleges' = [colleges EXCEPT ![i] = SetCollege(@, data)]
               /\ Reply(p, Response(200, "College updated successfully"))
          ELSE /\ Reply(p, Response(404, "No changes made or college not found"))
               /\ UNCHANGED colleges
    /\ UNCHANGED <<users, events, nextId, clock, loc>>

(* lines 158-167 *)
UpdateCollege(p, name, data) ==
    /\ Accept(p, [op |-> "update_college", name |-> name, data |-> data])
    /\ LET i == FindOne(colleges, "name", name)
       IN IF i # 0 /\ SetCollege(colleges[i], data) # colleges[i]
          THEN /\ colleges' = [colleges EXCEPT ![i] = SetCollege(@, data)]
               /\ Reply(p, Response(200, "College updated successfully"))
          ELSE /\ Reply(p, Response(404, "No changes made or college not found"))
               /\ UNCHANGED colleges
    /\ UNCHANGED <<users, events, nextId, clock, loc>>

----------------------------------------------------------------------------
(* Review Intake: rate_college *)

RateRequired == {"user_email", "rating", "message"}
Ratings == {1, 5}

(* request bodies of POST /colleges/<name>/rate *)
RateBodies ==
    [fields : {RateRequired, RateRequired \ {"message"}},
     user_email : Emails, rating : Ratings]

(* lines 288-294 *)
Review(user_id, data, t) ==
    [user_id |-> user_id, user_email |-> data.user_email, rating |-> data.rating,
     message |-> "m", timestamp |-> t]

(* rate_college looking the college up before the user *)
RateUser_CollegeFirst(p, name, data) ==
    /\ Accept(p, [op |-> "rate_college", name |-> name, data |-> data])
    /\ IF ~(RateRequired \subseteq data.fields)
       THEN /\ Reply(p, Response(400, "Missing required fields"))
            /\ UNCHANGED loc
       ELSE IF FindOne(colleges, "name", name) = 0
       THEN /\ Reply(p, Response(404, "College not found"))
            /\ UNCHANGED loc
       ELSE LET i == FindOne(users, "email", data.user_email)
            IN IF i = 0
               THEN /\ Reply(p, Response(403, "Invalid user"))
                    /\ UNCHANGED loc
               ELSE /\ loc' = [loc EXCEPT ![p] = [NoLoc EXCEPT !.user = users[i].id]]
                    /\ Goto(p, "rate_college")
    /\ UNCHANGED <<users, colleges, events, nextId, clock>>

(* lines 270-280: required fields, find_one of the user *)
RateUser(p, name, data) ==
    /\ Accept(p, [op |-> "rate_college", name |-> name, data |-> data])
    /\ IF ~(RateRequired \subseteq data.fields)
       THEN /\ Reply(p, Response(400, "Missing required fields"))
            /\ UNCHANGED loc
       ELSE LET i == FindOne(users, "email", data.user_email)
            IN IF i = 0
               THEN /\ Reply(p, Response(403, "Invalid user"))
                    /\ UNCHANGED loc
               ELSE /\ loc' = [loc EXCEPT ![p] = [NoLoc EXCEPT !.user = users[i].id]]
                    /\ Goto(p, "rate_college")
    /\ UNCHANGED <<users, colleges, events, nextId, clock>>

(* lines 283-294: find_one of the college, the review object *)
RateCollege(p) ==
    /\ pc[p] = "rate_college"
    /\ LET i == FindOne(colleges, "name", req[p].name)
       IN IF i = 0
          THEN /\ Reply(p, Response(404, "College not found"))
               /\ UNCHANGED <<loc, clock>>
          ELSE \E t \in clock..MaxTime :
               /\ clock' = t
               /\ loc' = [loc EXCEPT ![p].college = colleges[i].id,
                                     ![p].seen = colleges[i].reviews,
                                     ![p].t1 = t]
               /\ Goto(p, "rate_push")
    /\ UNCHANGED <<users, colleges, events, nextId, served, req>>

(* the review rate_college built *)
ReviewOf(p) == Review(loc[p].user, req[p].data, loc[p].t1)

(* the append done as a write of the array read at line 283 plus the review *)
RatePush_ReadThenWrite(p) ==
    /\ pc[p] = "rate_push"
    /\ LET i == FindOne(colleges, "name", req[p].name)
       IN colleges' = IF i = 0 THEN colleges
                      ELSE [colleges EXCEPT ![i].has_reviews = TRUE,
                                            ![i].reviews = Append(loc[p].seen, ReviewOf(p))]
    /\ Reply(p, Response(201, "Review added successfully"))
    /\ UNCHANGED <<users, events, nextId, clock, served, req, loc>>

(* lines 297-302: update_one({"name": ...}, {"$push": {"reviews": review}}) *)
RatePush(p) ==
    /\ pc[p] = "rate_push"
    /\ LET i == FindOne(colleges, "name", req[p].name)
       IN colleges' = IF i = 0 THEN colleges
                      ELSE [colleges EXCEPT ![i].has_reviews = TRUE,
                                            ![i].reviews = Append(@, ReviewOf(p))]
    /\ Reply(p, Response(201, "Review added successfully"))
    /\ UNCHANGED <<users, events, nextId, clock, served, req, loc>>

----------------------------------------------------------------------------
InitWorkers ==
    /\ clock = 0
    /\ served = [p \in Procs |-> 0]
    /\ pc = [p \in Procs |-> "idle"]
    /\ req = [p \in Procs |-> NoReq]
    /\ loc = [p \in Procs |-> NoLoc]
    /\ resp = [p \in Procs |-> NoResp]

(* the store as first connected to: three empty collections *)
InitEmpty ==
    /\ users = <<>>
    /\ colleges = <<>>
    /\ events = <<>>
    /\ nextId = 1
    /\ InitWorkers

NextLogin ==
    \E p \in Procs :
        \/ \E token \in Tokens : GoogleLoginFind(p, token)
        \/ GoogleLoginWrite(p)

SpecLogin == InitEmpty /\ [][NextLogin]_vars

(* the <string:event_id> of a URL: malformed (0), an ObjectId the store has *)
(* handed out, or one it has not                                            *)
UrlEventIds == 0..nextId

(* every event handler makes a single store call, so its requests are      *)
(* serialised by the store: one worker produces every order of them         *)
EventWorkers == {1}

NextEvents ==
    \E p \in EventWorkers :
        \/ \E data \in AddEventBodies : AddEvent(p, data)
        \/ \E id \in UrlEventIds : \E data \in UpdateEventBodies : UpdateEvent(p, id, data)
        \/ \E id \in UrlEventIds : DeleteEvent(p, id)

SpecEvents == InitEmpty /\ [][NextEvents]_vars

(* a body with every required field and well-formed location and contact *)
GoodCollege(name) ==
    [fields |-> Required, name |-> name,
     location |-> Shape(TRUE, LocationKeys), contact |-> Shape(TRUE, ContactKeys)]

UserA == UserData(1, GoogleInfo("tokA"), 0, 0)
UserB == UserData(2, GoogleInfo("tokB"), 0, 0)

(* the store after a@x registered: b@x is not a user *)
Init ==
    /\ users = <<UserA>>
    /\ colleges = <<>>
    /\ events = <<>>
    /\ nextId = 2
    /\ InitWorkers

CollegeBodies ==
    {GoodCollege(n) : n \in Names}
        \cup {[GoodCollege("n1") EXCEPT !.fields = Required \ {"city"}]}

Next ==
    \E p \in Procs :
        \/ \E data \in CollegeBodies : AddCollege(p, data)
        \/ \E name \in Names : DeleteCollege(p, name)
        \/ \E name \in Names : \E data \in UpdateCollegeBodies : UpdateCollege(p, name, data)
        \/ \E name \in Names : \E data \in {b \in RateBodies : b.rating = 5} :
                RateUser(p, name, data)
        \/ RateCollege(p)
        \/ RatePush(p)

Spec == Init /\ [][Next]_vars

(* two users, a college that holds one review, and a second college *)
RateStore ==
    << [id |-> 3, name |-> "n1", website |-> "w1", has_reviews |-> TRUE,
        reviews |-> <<Review(1, [user_email |-> "a@x", rating |-> 1], 0)>>,
        created_at |-> 0, updated_at |-> 0],
       [id |-> 4, name |-> "n2", website |-> "w1", has_reviews |-> FALSE,
        reviews |-> <<>>, created_at |-> 0, updated_at |-> 0] >>

InitRate ==
    /\ users = <<UserA, UserB>>
    /\ colleges = RateStore
    /\ events = <<>>
    /\ nextId = 5
    /\ InitWorkers

(* each worker serves one rate_college request, in any interleaving *)
NextRate ==
    \E p \in Procs :
        \/ /\ req[p] = NoReq
           /\ \E name \in Names : \E data \in RateBodies : RateUser(p, name, data)
        \/ RateCollege(p)
        \/ RatePush(p)

SpecRate == InitRate /\ [][NextRate]_vars

(* the top-level keys of a POST /colleges body *)
BodyKeys == Required \cup {"extra"}

BodyFieldSets ==
    {F \in SUBSET BodyKeys :
        Cardinality(Required \ F) <= MaxMissing \/ F \subseteq {"extra"}}

LocationShapes ==
    {Shape(TRUE, LocationKeys), Shape(TRUE, LocationKeys \ {"longitude"}), Shape(FALSE, {})}

ContactShapes == {Shape(TRUE, ContactKeys), Shape(TRUE, {"email"})}

AllCollegeBodies ==
    {b \in [fields : BodyFieldSets, name : {"n1"},
            location : LocationShapes, contact : ContactShapes] :
        \/ Required \subseteq b.fields
        \/ b.location.isdict /\ b.contact = Shape(TRUE, ContactKeys)}

(* add_college makes a single store call: one worker gives every order *)
NextAddCollege ==
    \E p \in {1} : \E data \in AllCollegeBodies : AddCollege(p, data)

SpecAddCollege == InitEmpty /\ [][NextAddCollege]_vars

----------------------------------------------------------------------------
(* Claims about google_login, checked under SpecLogin *)

UsersWithEmail(e) == {i \in 1..Len(users) : users[i].email = e}

(* C1: for every email, after any interleaving of google_login calls that   *)
(* verify to it, user_collection holds at most one record with that email.  *)
C1_OneRecordPerEmail == \A e \in Emails : Cardinality(UsersWithEmail(e)) <= 1

LoginRejected(token) == token = "" \/ GoogleStatus(token) # 200

(* C4 as stated: a google_login whose token is absent or whose exchange is  *)
(* not a success answers 401 and leaves user_collection unchanged.          *)
C4_RejectedIs401 ==
    [][\A p \in Procs :
        (Accepts(p) /\ req'[p].op = "google_login" /\ LoginRejected(req'[p].token))
        => /\ pc'[p] = "idle"
           /\ resp'[p].code = 401
           /\ users' = users]_vars

(* C4 amended: an absent token answers 400, a failed exchange answers 401,  *)
(* and in both cases the call ends there with user_collection unchanged.    *)
C4_RejectedLeavesUsers ==
    [][\A p \in Procs :
        (Accepts(p) /\ req'[p].op = "google_login" /\ LoginRejected(req'[p].token))
        => /\ pc'[p] = "idle"
           /\ resp'[p].code = (IF req'[p].token = "" THEN 400 ELSE 401)
           /\ users' = users]_vars

C4_Witness ==
    \E p \in Procs :
        /\ pc[p] = "idle" /\ req[p].op = "google_login" /\ req[p].token = "bad"
        /\ resp[p].code = 401
        /\ users # <<>>

----------------------------------------------------------------------------
(* Claims about the event routes, checked under SpecEvents *)

(* C6: a delete_event on a stored id answers 200 and removes the event; a   *)
(* delete_event on an id that is not stored answers 404 and leaves          *)
(* event_collection unchanged; an ObjectId that was handed out and is no    *)
(* longer stored is never stored again.                                     *)
C6_DeleteOnce ==
    [][/\ \A p \in Procs :
            (Accepts(p) /\ req'[p].op = "delete_event" /\ req'[p].id # 0)
            => IF req'[p].id \in EventIds(events)
               THEN /\ resp'[p].code = 200
                    /\ req'[p].id \notin EventIds(events')
                    /\ Len(events') = Len(events) - 1
               ELSE /\ resp'[p].code = 404
                    /\ events' = events
       /\ \A id \in 1..(nextId - 1) :
            id \notin EventIds(events) => id \notin EventIds(events')]_vars

(* a second delete_event of an id has answered 404 *)
C6_Witness ==
    \E p \in Procs :
        /\ pc[p] = "idle" /\ req[p].op = "delete_event" /\ resp[p].code = 404
        /\ req[p].id \in 1..(nextId - 1)
        /\ req[p].id \notin EventIds(events)

(* C9: an update_event whose body supplies a date that does not parse as    *)
(* YYYY-MM-DDTHH:MM:SSZ answers 400 and leaves event_collection unchanged.  *)
C9_BadDateIs400 ==
    [][\A p \in Procs :
        (/\ Accepts(p) /\ req'[p].op = "update_event"
         /\ "date" \in req'[p].data.fields
         /\ Strptime(req'[p].data.date, "%Y-%m-%dT%H:%M:%SZ") = ValueError)
        => /\ resp'[p].code = 400
           /\ events' = events]_vars

----------------------------------------------------------------------------
(* Claims about rate_college *)

Range(seq) == {seq[i] : i \in 1..Len(seq)}

IsPrefix(a, b) == Len(a) <= Len(b) /\ \A i \in 1..Len(a) : a[i] = b[i]

CollegeNamed(colls, name) == FindOne(colls, "name", name)

Created(p) == pc[p] = "idle" /\ req[p].op = "rate_college" /\ resp[p].code = 201

(* C2: under SpecRate, when two rate_college requests for the same college  *)
(* have both answered 201, that college's reviews array is longer by        *)
(* exactly 2 than before and holds both reviews.                            *)
C2_BothReviewsPersist ==
    \A p \in Procs : \A q \in Procs \ {p} :
        (Created(p) /\ Created(q) /\ req[p].name = req[q].name)
        => LET i == CollegeNamed(colleges, req[p].name)
           IN /\ i # 0
              /\ Len(colleges[i].reviews) = Len(RateStore[i].reviews) + 2
              /\ IsPrefix(RateStore[i].reviews, colleges[i].reviews)
              /\ {ReviewOf(p), ReviewOf(q)} \subseteq Range(colleges[i].reviews)

C2_Witness ==
    \E p \in Procs : \E q \in Procs \ {p} :
        /\ Created(p) /\ Created(q)
        /\ req[p].name = "n1" /\ req[q].name = "n1"
        /\ ReviewOf(p) # ReviewOf(q)

(* C5: under Spec, a rate_college request with all three fields whose       *)
(* user_email is no user's answers 403 at once, whether or not the college  *)
(* exists; one whose user is known goes on to the college lookup, and       *)
(* answers 404 there when no college has the name; in both cases            *)
(* clg_collection is unchanged.                                             *)
C5_ForbiddenThenNotFound ==
    [][\A p \in Procs :
        /\ (Accepts(p) /\ req'[p].op = "rate_college"
                /\ RateRequired \subseteq req'[p].data.fields)
           => IF \E i \in 1..Len(users) : users[i].email = req'[p].data.user_email
              THEN pc'[p] = "rate_college" /\ colleges' = colleges
              ELSE pc'[p] = "idle" /\ resp'[p].code = 403 /\ colleges' = colleges
        /\ (pc[p] = "rate_college" /\ pc'[p] # "rate_college"
                /\ CollegeNamed(colleges, req[p].name) = 0)
           => pc'[p] = "idle" /\ resp'[p].code = 404 /\ colleges' = colleges]_vars

(* a stored college was rated by an email that is no user's: 403 *)
C5_Witness ==
    \E p \in Procs :
        /\ pc[p] = "idle" /\ req[p].op = "rate_college" /\ resp[p].code = 403
        /\ CollegeNamed(colleges, req[p].name) # 0

(* C10: a rate_college that answers 201 has appended its review to a stored *)
(* college of that name.                                                    *)
C10_CreatedMeansStored ==
    [][\A p \in Procs :
        (pc[p] = "rate_push" /\ pc'[p] = "idle" /\ resp'[p].code = 201)
        => \E j \in 1..Len(colleges') :
             /\ colleges'[j].name = req[p].name
             /\ ReviewOf(p) \in Range(colleges'[j].reviews)]_vars

----------------------------------------------------------------------------
(* Claims about the college routes *)

(* C3: the reviews array of a college that stays stored only grows at its   *)
(* end: every entry present before a step is present, unchanged and at the  *)
(* same position, after it.                                                 *)
C3_ReviewsAppendOnly ==
    [][\A i \in 1..Len(colleges) : \A j \in 1..Len(colleges') :
        colleges[i].id = colleges'[j].id
        => IsPrefix(colleges[i].reviews, colleges'[j].reviews)]_vars

(* the supplied fields already hold the supplied values *)
NoOp(c, data) ==
    /\ "website" \in data.fields => c.website = data.website
    /\ "reviews" \in data.fields => c.has_reviews /\ c.reviews = <<>>

(* C7: update_college answers 404 and leaves clg_collection unchanged both  *)
(* when no college has the name and when the supplied fields equal the      *)
(* stored values; it answers 200 exactly when a stored college changed, and *)
(* then only the supplied fields of that one college differ.                *)
C7_UpdateCollege ==
    [][\A p \in Procs :
        (Accepts(p) /\ req'[p].op = "update_college")
        => LET i == CollegeNamed(colleges, req'[p].name)
               data == req'[p].data
           IN /\ (i = 0 \/ (i # 0 /\ NoOp(colleges[i], data)))
                 => resp'[p].code = 404 /\ colleges' = colleges
              /\ resp'[p].code = 200 <=> colleges' # colleges
              /\ resp'[p].code \in {200, 404}
              /\ resp'[p].code = 200
                 => /\ Len(colleges') = Len(colleges)
                    /\ \A j \in 1..Len(colleges) : j # i => colleges'[j] = colleges[j]
                    /\ colleges'[i].id = colleges[i].id
                    /\ colleges'[i].name = colleges[i].name
                    /\ colleges'[i].created_at = colleges[i].created_at
                    /\ colleges'[i].updated_at = colleges[i].updated_at
                    /\ "website" \notin data.fields
                       => colleges'[i].website = colleges[i].website
                    /\ "reviews" \notin data.fields
                       => /\ colleges'[i].reviews = colleges[i].reviews
                          /\ colleges'[i].has_reviews = colleges[i].has_reviews]_vars

(* worker p added a college and then sent an update_college whose fields    *)
(* equal the values that worker q's update_college had stored: 404          *)
C7_Witness ==
    \E p \in Procs : \E q \in Procs \ {p} :
        /\ pc[p] = "idle" /\ req[p].op = "update_college" /\ resp[p].code = 404
        /\ pc[q] = "idle" /\ req[q].op = "update_college" /\ resp[q].code = 200
        /\ served[p] = 2 /\ served[q] = 1
        /\ LET i == CollegeNamed(colleges, req[p].name)
           IN i # 0 /\ NoOp(colleges[i], req[p].data)

AbsentFields(data) == Required \ data.fields

LacksLongitude(data) ==
    /\ AbsentFields(data) = {}
    /\ data.location.isdict /\ "longitude" \notin data.location.keys

=============================================================================
